---- MODULE Spec2Model ----
(***************************************************************************)
(* Authenticated HTTP access layer of the Orvexa admin client: the axios   *)
(* request/response interceptors, the credential store (localStorage) and  *)
(* the auth calls of the domain client, in the three revisions present in  *)
(* the repository:                                                         *)
(*   rev 1  src/unnamed/part_000 lines 1-299   (first revision)            *)
(*   rev 2  src/src/lib/api.ts                                             *)
(*   rev 3  src/unnamed/part_000 lines 301-967 (latest revision)           *)
(*                                                                         *)
(* Scheduling: one event loop.  A handler runs from the arrival of a       *)
(* response up to its next HTTP call without interruption, so every action *)
(* below is one such run; HTTP calls in flight are the suspension points.  *)
(*                                                                         *)
(* The second part models the pure helpers of the client: the time         *)
(* conversions of the company settings page and the attendance mappers of  *)
(* the domain client, applied to arguments drawn from bounded sets         *)
(* (specification PureSpec).                                               *)
(***************************************************************************)
EXTENDS Integers, Sequences, FiniteSets

\* ------------------------------------------------------------- bounds
MaxReq == 2     \* logical requests issued in one behaviour
MaxTok == 4     \* tokens the server mints in one behaviour

\* ------------------------------------------------------------- program constants
OK == 200
Unauthorized == 401
ServerError == 500

Revs == {1, 2, 3}
Reqs == 1..MaxReq
Statuses == {OK, Unauthorized, ServerError}
Urls == {"data", "login", "refresh"}
NoTok == 0      \* an empty localStorage slot / an absent Authorization header

\* The token pair of the login that preceded the page load.
InitialAccessToken == 1
InitialRefreshToken == 2

VARIABLES
  rev,           \* the revision of the API client that is loaded
  accessToken,   \* localStorage "accessToken" (NoTok = empty)
  refreshToken,  \* localStorage "refreshToken" (NoTok = empty)
  location,      \* window.location: "app", "login", or "reload" (page reloaded)
  forced,        \* history: the 401 handler cleared the store since the last login
  minted,        \* server: number of tokens issued so far (tokens are 1..minted)
  req,           \* the logical requests, by slot
  tz,            \* browser timezone: local time minus UTC, in minutes
  arg,           \* the argument a helper is applied to
  ret,           \* the helper's result for arg
  back           \* the result of the inverse conversion applied to ret

client == <<rev, accessToken, refreshToken, location, forced, minted, req>>
pure == <<tz, arg, ret, back>>
vars == <<rev, accessToken, refreshToken, location, forced, minted, req,
          tz, arg, ret, back>>

\* One logical request (an axios config and the promise of its caller):
\*   pc        "idle", "sent" (a send of the config is in flight),
\*             "refreshing" (the handler awaits its refresh call), "done"
\*   url       the endpoint: a domain call, /login, or /refresh (api.refreshToken)
\*   retry     config._retry
\*   hdr       Authorization header the caller put into the config itself
\*             (api.refreshToken(t): Bearer t; every other call: none)
\*   auth      Authorization header of the last send (NoTok = no header)
\*   nSend     sends of the config so far; nRefresh: refresh calls made for it
\*   rt        the handler's local refreshToken (read from the store)
\*   rauth     bearer credential of the refresh call as it reaches the server
\*   rvia      the axios instance that carried the refresh call
\*   peers     history, kept while the call is unsettled: refresh calls of
\*             other requests that were in flight when the refresh call of
\*             this one went out
\*   pair      api.login: <<accessToken, refreshToken>> of the login response
\*   over      history: the pair the store held when api.login wrote its pair
\*   sts       statuses of the responses to the sends, in order
\*   rst, rtok status of the refresh response and the access token in it
\*   out       what the caller observed
NoPair == <<NoTok, NoTok>>

\* A value passed to or returned by a helper.  A time string is the
\* sequence of its ':'-separated fields, each a pair of decimal digits;
\* text is a status string (or the name of a property); num is a number in
\* minutes, i.e. in sixtieths of an hour.
Val(kind, time, time2, period, text, num) ==
  [kind |-> kind, time |-> time, time2 |-> time2, period |-> period,
   text |-> text, num |-> num]

NoVal == Val("none", <<>>, <<>>, "", "", 0)

\* A JavaScript number as a value: kind "NaN", or kind "number" with num.
NumberVal(x) ==
  Val(IF x.nan THEN "NaN" ELSE "number", <<>>, <<>>, "", "", x.v)

NoOut == [kind |-> "none", src |-> "none", n |-> 0]

IdleReq == [pc |-> "idle", url |-> "data", retry |-> FALSE, hdr |-> NoTok,
            auth |-> NoTok,
            nSend |-> 0, nRefresh |-> 0, rt |-> NoTok, rauth |-> NoTok,
            rvia |-> "none", peers |-> 0, pair |-> NoPair, over |-> NoPair,
            sts |-> <<>>, rst |-> 0, rtok |-> NoTok, out |-> NoOut]

\* ------------------------------------------------------------- interceptors

\* Variant: the interceptor sets the header only on a config without one.
RequestInterceptor_KeepsHeader(hdr, access) == IF hdr # NoTok THEN hdr ELSE access

\* Request interceptor: the Authorization header a config leaves with, given
\* the header it came with and the access-token slot.
RequestInterceptor(hdr, access) == IF access # NoTok THEN access ELSE hdr

\* Variant: the handler does not test config._retry.
ShouldRefresh_IgnoresRetry(r, status, retry, url) ==
  /\ status = Unauthorized
  /\ (r # 1 => url # "refresh")

\* Condition of the response interceptor's error handler for starting the
\* refresh-and-retry sequence.  The first revision has no url test.
ShouldRefresh(r, status, retry, url) ==
  /\ status = Unauthorized
  /\ ~retry
  /\ (r # 1 => url # "refresh")

\* The client that carries the handler's refresh call: a fresh axios instance
\* (rev 1, 3) or the shared instance with both interceptors (rev 2).
RefreshVia(r) == IF r = 2 THEN "shared" ELSE "bare"

\* The bearer credential with which the handler's refresh call reaches the
\* server; on the shared instance the request interceptor runs over it.
RefreshBearer(r, rt, access) ==
  IF RefreshVia(r) = "shared" THEN RequestInterceptor(rt, access) ELSE rt

\* Where the handler sends the browser on a forced logout.
ForcedLocation(r) == IF r = 1 THEN "reload" ELSE "login"

\* Variant: the handler does not write the new token to the store.
StoredAfterRefresh_Skipped(newAccessToken, old) == old

\* What localStorage "accessToken" holds after the handler stored the token
\* of the refresh response.
StoredAfterRefresh(newAccessToken, old) == newAccessToken

\* ------------------------------------------------------------- initial state
Init ==
  /\ rev \in Revs
  /\ \E loggedIn \in BOOLEAN :
       /\ accessToken = IF loggedIn THEN InitialAccessToken ELSE NoTok
       /\ refreshToken = IF loggedIn THEN InitialRefreshToken ELSE NoTok
       /\ location = IF loggedIn THEN "app" ELSE "login"
  /\ forced = FALSE
  /\ minted = InitialRefreshToken
  /\ req = [i \in Reqs |-> IdleReq]
  /\ tz = 0
  /\ arg = NoVal
  /\ ret = NoVal
  /\ back = NoVal

\* ------------------------------------------------------------- actions

\* The arguments with which api.refreshToken(t) is called: the refresh token
\* in the store, or the refresh token of the session the page started with,
\* which a caller may still hold after the store was cleared.
RefreshArgs(stored) == {stored, InitialRefreshToken} \ {NoTok}

\* A call through the shared axios instance: axios.get/post/put(url, ...).
\* api.refreshToken(t) passes Authorization: Bearer t in its config.
Call(i, u, t) ==
  /\ req[i].pc = "idle"
  /\ \A j \in Reqs : j < i => req[j].pc # "idle"
  /\ u = "refresh" => t \in RefreshArgs(refreshToken)
  /\ u # "refresh" => t = NoTok
  /\ req' = [req EXCEPT ![i] = [@ EXCEPT !.pc = "sent", !.url = u, !.hdr = t,
                                         !.auth = RequestInterceptor(t, accessToken),
                                         !.nSend = 1]]
  /\ UNCHANGED <<rev, accessToken, refreshToken, location, forced, minted>>

\* The record of a settled call: what the caller's promise resolved or
\* rejected with (src "send": the response to send number n of the request
\* itself; src "refresh": the error of the handler's refresh call).
Settled(q, kind, src, n) ==
  [q EXCEPT !.pc = "done", !.peers = 0,
            !.out = [kind |-> kind, src |-> src, n |-> n]]

\* Variant: api.login stores the access token of the response only.
ResponseOk_AccessOnly(i) ==
  LET q == [req[i] EXCEPT !.sts = Append(@, OK)] IN
  /\ req[i].pc = "sent"
  /\ IF req[i].url = "login"
       THEN /\ minted + 2 <= MaxTok
            /\ accessToken' = minted + 1
            /\ minted' = minted + 2
            /\ location' = "app"
            /\ forced' = FALSE
            /\ req' = [req EXCEPT ![i] =
                         Settled([q EXCEPT !.pair = <<minted + 1, minted + 2>>,
                                           !.over = <<accessToken, refreshToken>>],
                                 "ok", "send", q.nSend)]
            /\ UNCHANGED refreshToken
       ELSE /\ req' = [req EXCEPT ![i] = Settled(q, "ok", "send", q.nSend)]
            /\ UNCHANGED <<accessToken, refreshToken, minted, location, forced>>
  /\ UNCHANGED rev

\* A 2xx response to a call: the response interceptor passes it through.
\* For a call of api.login the response carries a new pair of tokens; the
\* domain client stores both before it returns, and the login page goes to
\* the dashboard.
ResponseOk(i) ==
  LET q == [req[i] EXCEPT !.sts = Append(@, OK)]
      res == [accessToken |-> minted + 1, refreshToken |-> minted + 2] IN
  /\ req[i].pc = "sent"
  /\ IF req[i].url = "login"
       THEN /\ minted + 2 <= MaxTok
            /\ accessToken' = res.accessToken
            /\ refreshToken' = res.refreshToken
            /\ minted' = minted + 2
            /\ location' = "app"
            /\ forced' = FALSE
            /\ req' = [req EXCEPT ![i] =
                         Settled([q EXCEPT !.pair = <<res.accessToken, res.refreshToken>>,
                                           !.over = <<accessToken, refreshToken>>],
                                 "ok", "send", q.nSend)]
       ELSE /\ req' = [req EXCEPT ![i] = Settled(q, "ok", "send", q.nSend)]
            /\ UNCHANGED <<accessToken, refreshToken, minted, location, forced>>
  /\ UNCHANGED rev

\* Variant: the handler treats every error it does not refresh for as the
\* end of the session.
ResponseRejected_ClearsStore(i, st) ==
  LET q == [req[i] EXCEPT !.sts = Append(@, st)] IN
  /\ req[i].pc = "sent"
  /\ st # OK
  /\ ~ShouldRefresh(rev, st, req[i].retry, req[i].url)
  /\ accessToken' = NoTok
  /\ refreshToken' = NoTok
  /\ req' = [req EXCEPT ![i] = Settled(q, "err", "send", q.nSend)]
  /\ UNCHANGED <<rev, location, forced, minted>>

\* A failed response that the handler does not act on: any status but 401,
\* a 401 for a config already marked _retry, a 401 of the refresh endpoint
\* (rev 2, 3).  The error is rejected as it is.
ResponseRejected(i, st) ==
  LET q == [req[i] EXCEPT !.sts = Append(@, st)] IN
  /\ req[i].pc = "sent"
  /\ st # OK
  /\ ~ShouldRefresh(rev, st, req[i].retry, req[i].url)
  /\ req' = [req EXCEPT ![i] = Settled(q, "err", "send", q.nSend)]
  /\ UNCHANGED <<rev, accessToken, refreshToken, location, forced, minted>>

\* Variant: the handler does not test the refresh token it read and makes
\* the refresh call with an empty credential.
ResponseNoRefreshToken_CallsRefresh(i) ==
  /\ req[i].pc = "sent"
  /\ ShouldRefresh(rev, Unauthorized, req[i].retry, req[i].url)
  /\ refreshToken = NoTok
  /\ req' = [req EXCEPT ![i] =
               [@ EXCEPT !.sts = Append(@, Unauthorized), !.retry = TRUE,
                         !.pc = "refreshing", !.nRefresh = @ + 1,
                         !.rvia = RefreshVia(rev)]]
  /\ UNCHANGED <<rev, accessToken, refreshToken, location, forced, minted>>

\* A 401 the handler acts on, with the refresh-token slot empty: both slots
\* removed, the browser sent away, the 401 rejected.
ResponseNoRefreshToken(i) ==
  LET q == [req[i] EXCEPT !.sts = Append(@, Unauthorized), !.retry = TRUE] IN
  /\ req[i].pc = "sent"
  /\ ShouldRefresh(rev, Unauthorized, req[i].retry, req[i].url)
  /\ refreshToken = NoTok
  /\ accessToken' = NoTok
  /\ refreshToken' = NoTok
  /\ location' = ForcedLocation(rev)
  /\ forced' = TRUE
  /\ req' = [req EXCEPT ![i] = Settled(q, "err", "send", q.nSend)]
  /\ UNCHANGED <<rev, minted>>

\* Variant: a handler that finds a refresh call in flight waits for that
\* one and makes none of its own.
ResponseStartRefresh_Joins(i) ==
  /\ req[i].pc = "sent"
  /\ ShouldRefresh(rev, Unauthorized, req[i].retry, req[i].url)
  /\ refreshToken # NoTok
  /\ req' = [req EXCEPT ![i] =
               [@ EXCEPT !.sts = Append(@, Unauthorized), !.retry = TRUE,
                         !.pc = "refreshing",
                         !.nRefresh = IF \E j \in Reqs : req[j].pc = "refreshing"
                                        THEN @ ELSE @ + 1,
                         !.rt = refreshToken,
                         !.rauth = RefreshBearer(rev, refreshToken, accessToken),
                         !.rvia = RefreshVia(rev),
                         !.peers = Cardinality({j \in Reqs : req[j].pc = "refreshing"})]]
  /\ UNCHANGED <<rev, accessToken, refreshToken, location, forced, minted>>

\* A 401 the handler acts on, with a refresh token stored: the config is
\* marked _retry and the refresh call goes out; the handler awaits it.
ResponseStartRefresh(i) ==
  /\ req[i].pc = "sent"
  /\ ShouldRefresh(rev, Unauthorized, req[i].retry, req[i].url)
  /\ refreshToken # NoTok
  /\ req' = [req EXCEPT ![i] =
               [@ EXCEPT !.sts = Append(@, Unauthorized), !.retry = TRUE,
                         !.pc = "refreshing", !.nRefresh = @ + 1,
                         !.rt = refreshToken,
                         !.rauth = RefreshBearer(rev, refreshToken, accessToken),
                         !.rvia = RefreshVia(rev),
                         !.peers = Cardinality({j \in Reqs : req[j].pc = "refreshing"})]]
  /\ UNCHANGED <<rev, accessToken, refreshToken, location, forced, minted>>

\* Variant: after a successful refresh the handler stores the token and
\* rejects the original 401 instead of sending the config again.
RefreshOk_RejectsOriginal(i) ==
  /\ req[i].pc = "refreshing"
  /\ minted < MaxTok
  /\ minted' = minted + 1
  /\ accessToken' = minted + 1
  /\ req' = [req EXCEPT ![i] =
               Settled([@ EXCEPT !.rst = OK, !.rtok = minted + 1], "err", "send", 1)]
  /\ UNCHANGED <<rev, refreshToken, location, forced>>

\* Variant: the handler also stores a rotated refresh token.
RefreshOk_Rotates(i) ==
  LET newAccessToken == minted + 1
      stored == StoredAfterRefresh(newAccessToken, accessToken) IN
  /\ req[i].pc = "refreshing"
  /\ minted < MaxTok
  /\ minted' = minted + 1
  /\ accessToken' = stored
  /\ refreshToken' = newAccessToken
  /\ req' = [req EXCEPT ![i] =
               [@ EXCEPT !.rst = OK, !.rtok = newAccessToken, !.pc = "sent",
                         !.auth = RequestInterceptor(newAccessToken, stored),
                         !.nSend = @ + 1]]
  /\ UNCHANGED <<rev, location, forced>>

\* The refresh call succeeded: the new access token is stored, written into
\* the header of the original config, and axios(originalRequest) sends the
\* config again through the request interceptor.
RefreshOk(i) ==
  LET newAccessToken == minted + 1
      stored == StoredAfterRefresh(newAccessToken, accessToken) IN
  /\ req[i].pc = "refreshing"
  /\ minted < MaxTok
  /\ minted' = minted + 1
  /\ accessToken' = stored
  /\ req' = [req EXCEPT ![i] =
               [@ EXCEPT !.rst = OK, !.rtok = newAccessToken, !.pc = "sent",
                         !.auth = RequestInterceptor(newAccessToken, stored),
                         !.nSend = @ + 1]]
  /\ UNCHANGED <<rev, refreshToken, location, forced>>

\* Variant: the catch block clears the store and leaves the promise of the
\* caller pending.
RefreshFailed_Pending(i, st) ==
  /\ req[i].pc = "refreshing"
  /\ st # OK
  /\ accessToken' = NoTok
  /\ refreshToken' = NoTok
  /\ location' = ForcedLocation(rev)
  /\ forced' = TRUE
  /\ req' = [req EXCEPT ![i] = [@ EXCEPT !.rst = st]]
  /\ UNCHANGED <<rev, minted>>

\* The refresh call failed (on the shared instance of rev 2 its error first
\* passes the response interceptor, which rejects a /refresh error as it
\* is): both slots removed, the browser sent away, the refresh error
\* rejected.
RefreshFailed(i, st) ==
  /\ req[i].pc = "refreshing"
  /\ st # OK
  /\ req[i].rvia = "shared" => ~ShouldRefresh(rev, st, FALSE, "refresh")
  /\ accessToken' = NoTok
  /\ refreshToken' = NoTok
  /\ location' = ForcedLocation(rev)
  /\ forced' = TRUE
  /\ req' = [req EXCEPT ![i] = Settled([@ EXCEPT !.rst = st], "err", "refresh", 0)]
  /\ UNCHANGED <<rev, minted>>

\* api.logout() / handleLogout of the sidebar.
logout ==
  /\ accessToken' = NoTok
  /\ refreshToken' = NoTok
  /\ location' = "login"
  /\ UNCHANGED <<rev, forced, minted, req>>

Next ==
  \/ \E i \in Reqs, u \in Urls, t \in NoTok..MaxTok :
       Call(i, u, t) /\ UNCHANGED pure
  \/ \E i \in Reqs : ResponseOk(i) /\ UNCHANGED pure
  \/ \E i \in Reqs, st \in Statuses : ResponseRejected(i, st) /\ UNCHANGED pure
  \/ \E i \in Reqs : ResponseNoRefreshToken(i) /\ UNCHANGED pure
  \/ \E i \in Reqs : ResponseStartRefresh(i) /\ UNCHANGED pure
  \/ \E i \in Reqs : RefreshOk(i) /\ UNCHANGED pure
  \/ \E i \in Reqs, st \in Statuses : RefreshFailed(i, st) /\ UNCHANGED pure
  \/ logout /\ UNCHANGED pure

Spec == Init /\ [][Next]_vars

\* The handling of a response to a network call made for request i: to a
\* send of its config or to the refresh call of its handler.
Response(i) ==
  \/ ResponseOk(i)
  \/ \E st \in Statuses : ResponseRejected(i, st)
  \/ ResponseNoRefreshToken(i)
  \/ ResponseStartRefresh(i)
  \/ RefreshOk(i)
  \/ \E st \in Statuses : RefreshFailed(i, st)

\* ------------------------------------------------------------- pure helpers

DayMinutes == 24 * 60

\* Timezone offsets of the browser, in minutes east of UTC.
Offsets == {-720, -570, -1, 0, 1, 330, 345, 840}

Periods == {"AM", "PM"}

\* n.toString().padStart(2, '0'), for 0 <= n < 100: the two digits.
padStart(n) == <<n \div 10, n % 10>>

\* parseInt / Number of a field of two decimal digits.
parseInt(f) == 10 * f[1] + f[2]

\* Date: the UTC minute of day of the local wall-clock time h:m
\* (setHours(h, m, 0, 0), then getUTCHours() and getUTCMinutes()).
getUTC(h, m) == (h * 60 + m - tz) % DayMinutes

\* Date: the local minute of day of the UTC time h:m
\* (setUTCHours(h, m, 0, 0), then getHours() and getMinutes()).
getLocal(h, m) == (h * 60 + m + tz) % DayMinutes

\* Variant: 12 is not special-cased in the 12-hour to 24-hour step.
hour_Plain(hours, period) ==
  IF period = "PM" THEN parseInt(hours) + 12 ELSE parseInt(hours)

\* convertLocalTimeToUTC: `hour` after the AM/PM adjustment.
hour(hours, period) ==
  IF period = "PM" /\ parseInt(hours) # 12 THEN parseInt(hours) + 12
  ELSE IF period = "AM" /\ parseInt(hours) = 12 THEN 0
  ELSE parseInt(hours)

\* convertLocalTimeToUTC(time, period): "HH:MM:00" in UTC.
convertLocalTimeToUTC(time, period) ==
  LET hours == time[1]
      minutes == time[2]
      utc == getUTC(hour(hours, period), parseInt(minutes))
      utcHours == utc \div 60
      utcMinutes == utc % 60
  IN  <<padStart(utcHours), padStart(utcMinutes), <<0, 0>>>>

\* Variant: noon counts as AM.
period_After12(localHours) == IF localHours > 12 THEN "PM" ELSE "AM"

\* convertUTCToLocalTime: `period`.
period(localHours) == IF localHours >= 12 THEN "PM" ELSE "AM"

\* Variant: hour 0 is displayed as 0.
displayHours_Zero(localHours) == localHours % 12

\* convertUTCToLocalTime: `displayHours`.
displayHours(localHours) == IF localHours % 12 = 0 THEN 12 ELSE localHours % 12

\* convertUTCToLocalTime(utcTime): { time: "hh:mm", period }.
convertUTCToLocalTime(utcTime) ==
  LET utcHours == parseInt(utcTime[1])
      utcMinutes == parseInt(utcTime[2])
      loc == getLocal(utcHours, utcMinutes)
      localHours == loc \div 60
      localMinutes == loc % 60
  IN  [time |-> <<padStart(displayHours(localHours)), padStart(localMinutes)>>,
       period |-> period(localHours)]

\* mapAttendanceStatus: the statusMap literal of the revision (api.ts: 2,
\* part_000: 3).
statusMap(r) ==
  IF r = 2
    THEN [k \in {"NOT_MARKED", "PRESENT", "ABSENT", "LATE", "HALF_DAY"} |->
            CASE k = "NOT_MARKED" -> "not-marked"
              [] k = "PRESENT" -> "present"
              [] k = "ABSENT" -> "absent"
              [] k = "LATE" -> "late"
              [] k = "HALF_DAY" -> "half-day"]
    ELSE [k \in {"NOT_MARKED", "CHECK_IN_APPROVAL_REQUESTED", "CHECK_IN_REJECTED",
                 "CHECKED_IN", "CHECK_OUT_APPROVAL_REQUESTED", "CHECKED_OUT",
                 "CHECK_OUT_REJECTED"} |->
            CASE k = "NOT_MARKED" -> "not-marked"
              [] k = "CHECK_IN_APPROVAL_REQUESTED" -> "check-in-requested"
              [] k = "CHECK_IN_REJECTED" -> "check-in-rejected"
              [] k = "CHECKED_IN" -> "checked-in"
              [] k = "CHECK_OUT_APPROVAL_REQUESTED" -> "check-out-requested"
              [] k = "CHECKED_OUT" -> "checked-out"
              [] k = "CHECK_OUT_REJECTED" -> "check-out-rejected"]

\* Property names every object literal inherits from Object.prototype; the
\* values are functions or objects, all truthy.
ObjectPrototype ==
  {"constructor", "toString", "toLocaleString", "valueOf", "hasOwnProperty",
   "isPrototypeOf", "propertyIsEnumerable", "__proto__"}

\* mapAttendanceStatus(backendStatus): statusMap[backendStatus] || 'not-marked'.
\* The lookup finds own properties first, then inherited ones.
mapAttendanceStatus(backendStatus) ==
  IF backendStatus \in DOMAIN statusMap(rev)
    THEN Val("string", <<>>, <<>>, "", statusMap(rev)[backendStatus], 0)
  ELSE IF backendStatus \in ObjectPrototype
    THEN Val("object", <<>>, <<>>, "", backendStatus, 0)
  ELSE Val("string", <<>>, <<>>, "", "not-marked", 0)

\* A string argument that is null, and the empty string (which splits into
\* one empty field).
Null == <<>>
EmptyString == <<<<>>>>

\* !s for a string or null.
Missing(s) == s \in {Null, EmptyString}

\* A character that is not a decimal digit.
Letter == 10

\* A JavaScript number: NaN, or a finite value v.
NaN == [nan |-> TRUE, v |-> 0]
Num(n) == [nan |-> FALSE, v |-> n]

\* The decimal value of a sequence of digits.
RECURSIVE Decimal(_)
Decimal(f) ==
  IF f = <<>> THEN 0 ELSE 10 * Decimal(SubSeq(f, 1, Len(f) - 1)) + f[Len(f)]

\* Number(field): 0 for the empty string, NaN unless all characters are
\* digits.
Number(f) ==
  IF \A k \in 1..Len(f) : f[k] \in 0..9 THEN Num(Decimal(f)) ELSE NaN

\* s.split(':').map(Number)[k - 1]; an element past the end is undefined,
\* which is NaN in arithmetic.
Part(s, k) == IF k <= Len(s) THEN Number(s[k]) ELSE NaN

\* hours * 60 + minutes.
TotalMinutes(hours, minutes) ==
  IF hours.nan \/ minutes.nan THEN NaN ELSE Num(hours.v * 60 + minutes.v)

\* Variant: the minutes of the two times are left out.
calculateWorkingHours_HoursOnly(checkIn, checkOut) ==
  IF Missing(checkIn) \/ Missing(checkOut) THEN Num(0)
  ELSE LET inHours == Part(checkIn, 1)
           outHours == Part(checkOut, 1)
       IN  IF inHours.nan \/ outHours.nan THEN NaN
           ELSE Num((outHours.v - inHours.v) * 60)

\* calculateWorkingHours(checkIn, checkOut).  The value returned is
\* diffMinutes / 60; a finite value is given here by diffMinutes, its number
\* of sixtieths.  No step of the body throws, so the catch is not entered.
calculateWorkingHours(checkIn, checkOut) ==
  IF Missing(checkIn) \/ Missing(checkOut) THEN Num(0)
  ELSE LET inTotalMinutes == TotalMinutes(Part(checkIn, 1), Part(checkIn, 2))
           outTotalMinutes == TotalMinutes(Part(checkOut, 1), Part(checkOut, 2))
           diffMinutes == IF inTotalMinutes.nan \/ outTotalMinutes.nan THEN NaN
                          ELSE Num(outTotalMinutes.v - inTotalMinutes.v)
       IN  diffMinutes

\* Variant: a reported value is taken whenever it is present, zero included.
workingHours_Nullish(present, otHours, checkIn, checkOut) ==
  IF present THEN Num(otHours * 60)
  ELSE calculateWorkingHours(checkIn, checkOut)

\* getAttendance: att.otHours || calculateWorkingHours(att.checkIn,
\* att.checkOut).  otHours is a number of hours when present; the result is
\* in sixtieths of an hour, as that of calculateWorkingHours.
workingHours(present, otHours, checkIn, checkOut) ==
  IF present /\ otHours # 0 THEN Num(otHours * 60)
  ELSE calculateWorkingHours(checkIn, checkOut)

\* Variant: a check-in at the threshold minute counts as late.
isLate_AtThreshold(checkInTime, lastAllowedCheckInTime) ==
  IF Missing(checkInTime) \/ Missing(lastAllowedCheckInTime) THEN FALSE
  ELSE LET checkInMinutes == TotalMinutes(Part(checkInTime, 1),
                                          Part(checkInTime, 2))
           allowedMinutes == TotalMinutes(Part(lastAllowedCheckInTime, 1),
                                          Part(lastAllowedCheckInTime, 2))
       IN  /\ ~checkInMinutes.nan /\ ~allowedMinutes.nan
           /\ checkInMinutes.v >= allowedMinutes.v

\* isLate(checkInTime) of the attendance page; lastAllowedCheckInTime is
\* that of companySettings, null when the settings are not loaded.  A
\* comparison with NaN is false.
isLate(checkInTime, lastAllowedCheckInTime) ==
  IF Missing(checkInTime) \/ Missing(lastAllowedCheckInTime) THEN FALSE
  ELSE LET checkInMinutes == TotalMinutes(Part(checkInTime, 1),
                                          Part(checkInTime, 2))
           allowedMinutes == TotalMinutes(Part(lastAllowedCheckInTime, 1),
                                          Part(lastAllowedCheckInTime, 2))
       IN  /\ ~checkInMinutes.nan /\ ~allowedMinutes.nan
           /\ checkInMinutes.v > allowedMinutes.v

\* Values of the fields of an error body: undefined, an array, a string.
\* A string is a sequence of pieces of text.
Undefined == [is |-> "undefined", items |-> <<>>, v |-> <<>>]
Arr(a) == [is |-> "array", items |-> a, v |-> <<>>]
Str(t) == [is |-> "string", items |-> <<>>, v |-> t]

\* The truth value of x in `x && ...` and `x || ...`: an array is true, even
\* when empty; a string is true unless empty.
Truthy(x) == x.is = "array" \/ (x.is = "string" /\ x.v # <<>>)

\* a.join(", ") for an array of strings.
RECURSIVE join(_)
join(a) ==
  IF a = <<>> THEN <<>>
  ELSE IF Len(a) = 1 THEN a[1]
  ELSE a[1] \o <<", ">> \o join(Tail(a))

\* An error of axios with the body of its response (all fields undefined
\* when there is no response), and an Error made by new Error(message).
AxiosError(details, violations, message, title) ==
  [kind |-> "error", isAxiosError |-> TRUE, details |-> details,
   violations |-> violations, message |-> message, title |-> title]

Error(message) ==
  [kind |-> "error", isAxiosError |-> FALSE, details |-> Undefined,
   violations |-> Undefined, message |-> Str(message), title |-> Undefined]

\* parseApiError(error) of the revision in use.  violations holds the
\* message of each violation.
parseApiError(error) ==
  IF ~error.isAxiosError THEN <<"Unknown error">>
  ELSE IF Truthy(error.details) /\ error.details.is = "array"
    THEN join(error.details.items)
  ELSE IF rev = 3 /\ Truthy(error.violations) /\ error.violations.is = "array"
    THEN join(error.violations.items)
  ELSE IF Truthy(error.message) THEN error.message.v
  ELSE IF rev = 3 /\ Truthy(error.title) THEN error.title.v
  ELSE <<"Unexpected API error">>

\* ------------------------------------------------------------- arguments

\* Local times as the settings page holds them: "hh:mm" and AM/PM.
LocalTimes ==
  {Val("local", <<padStart(h), padStart(m)>>, <<>>, p, "", 0) :
     h \in 1..12, m \in 0..59, p \in Periods}

\* Times of day as the backend stores them: "HH:MM:00".
UTCTimes ==
  {Val("utc", <<padStart(h), padStart(m), <<0, 0>>>>, <<>>, "", "", 0) :
     h \in 0..23, m \in 0..59}

\* attendanceStatus strings: those of both tables, and others.
BackendStatuses ==
  {"NOT_MARKED", "CHECK_IN_APPROVAL_REQUESTED", "CHECK_IN_REJECTED",
   "CHECKED_IN", "CHECK_OUT_APPROVAL_REQUESTED", "CHECKED_OUT",
   "CHECK_OUT_REJECTED", "PRESENT", "ABSENT", "LATE", "HALF_DAY",
   "", "UNKNOWN", "checked_in", "undefined", "constructor", "toString",
   "valueOf", "__proto__"}

StatusArgs == {Val("status", <<>>, <<>>, "", t, 0) : t \in BackendStatuses}

\* Clock times "HH:MM:SS" of an attendance record.
SampleMinutes == {0, 1, 30, 59}

ClockTimes ==
  {<<padStart(h), padStart(m), <<0, 0>>>> : h \in 0..23, m \in SampleMinutes}

\* Strings that are not clock times: "ab", "0900", "ab:cd", "09:ab", "ab:30".
Malformed ==
  {<<<<Letter, Letter>>>>, <<<<0, 9, 0, 0>>>>,
   <<<<Letter, Letter>>, <<Letter, Letter>>>>,
   <<<<0, 9>>, <<Letter, Letter>>>>, <<<<Letter, Letter>>, <<3, 0>>>>}

\* What a checkIn / checkOut field of a record can hold.
ClockValues == ClockTimes \cup Malformed \cup {Null, EmptyString}

ClockArgs ==
  {Val("clock", a, b, "", "", 0) : a \in ClockValues, b \in ClockValues}

\* Attendance records of the backend: otHours absent, zero or a number of
\* hours, with any checkIn and checkOut.
OtHours == {0, 1, 8}

RecordArgs ==
  {Val("record", a, b, "", "absent", 0) : a \in ClockValues, b \in ClockValues}
  \cup {Val("record", a, b, "", "present", h) :
          a \in ClockValues, b \in ClockValues, h \in OtHours}

\* A check-in time and the lastAllowedCheckInTime of the company settings.
LateArgs ==
  {Val("late", a, b, "", "", 0) : a \in ClockValues, b \in ClockValues}

\* Errors a domain call catches: errors of axios whose body has any of
\* details, violations, message and title, and an error of another kind.
Details == {Undefined, Arr(<<>>), Arr(<<<<"d1">>>>), Arr(<<<<"d1">>, <<"d2">>>>),
            Str(<<"d1">>)}
Violations == {Undefined, Arr(<<>>), Arr(<<<<"v1">>>>),
               Arr(<<<<"v1">>, <<"v2">>>>)}
Messages == {Undefined, Str(<<>>), Str(<<"m">>)}
Titles == {Undefined, Str(<<"t">>)}

ErrorArgs ==
  {AxiosError(d, v, m, t) :
     d \in Details, v \in Violations, m \in Messages, t \in Titles}
  \cup {Error(<<"e">>)}

\* ------------------------------------------------------------- helper runs

PureInit ==
  /\ accessToken = NoTok
  /\ refreshToken = NoTok
  /\ location = "app"
  /\ forced = FALSE
  /\ minted = InitialRefreshToken
  /\ req = [i \in Reqs |-> IdleReq]
  /\ ret = NoVal
  /\ back = NoVal
  /\ \/ rev = 3 /\ tz \in Offsets /\ arg \in LocalTimes \cup UTCTimes
     \/ rev \in {2, 3} /\ tz = 0 /\ arg \in StatusArgs
     \/ rev = 3 /\ tz = 0 /\ arg \in ClockArgs
     \/ rev = 3 /\ tz = 0 /\ arg \in RecordArgs
     \/ rev = 3 /\ tz = 0 /\ arg \in LateArgs
     \/ rev \in {2, 3} /\ tz = 0 /\ arg \in ErrorArgs

\* handleSave of the settings page: the time held by the page goes to the
\* backend through convertLocalTimeToUTC.
handleSave ==
  /\ \/ /\ arg.kind = "local" /\ ret = NoVal
        /\ ret' = Val("utc", convertLocalTimeToUTC(arg.time, arg.period),
                      <<>>, "", "", 0)
        /\ UNCHANGED back
     \/ /\ arg.kind = "utc" /\ ret # NoVal /\ back = NoVal
        /\ back' = Val("utc", convertLocalTimeToUTC(ret.time, ret.period),
                       <<>>, "", "", 0)
        /\ UNCHANGED ret
  /\ UNCHANGED <<tz, arg>>
  /\ UNCHANGED client

\* loadCompanyData of the settings page: the time the backend returned is
\* put into the page through convertUTCToLocalTime.
loadCompanyData ==
  /\ \/ /\ arg.kind = "utc" /\ ret = NoVal
        /\ ret' = LET l == convertUTCToLocalTime(arg.time)
                  IN  Val("local", l.time, <<>>, l.period, "", 0)
        /\ UNCHANGED back
     \/ /\ arg.kind = "local" /\ ret # NoVal /\ back = NoVal
        /\ back' = LET l == convertUTCToLocalTime(ret.time)
                   IN  Val("local", l.time, <<>>, l.period, "", 0)
        /\ UNCHANGED ret
  /\ UNCHANGED <<tz, arg>>
  /\ UNCHANGED client

\* getAllAttendance: the status of a record is mapped.
MapStatus ==
  /\ arg.kind = "status" /\ ret = NoVal
  /\ ret' = mapAttendanceStatus(arg.text)
  /\ UNCHANGED <<tz, arg, back>>
  /\ UNCHANGED client

\* getAllAttendance: the working hours of a record are computed.
WorkingHours ==
  /\ arg.kind = "clock" /\ ret = NoVal
  /\ ret' = NumberVal(calculateWorkingHours(arg.time, arg.time2))
  /\ UNCHANGED <<tz, arg, back>>
  /\ UNCHANGED client

\* getAttendance: the workingHours of a mapped record.
getAttendance ==
  /\ arg.kind = "record" /\ ret = NoVal
  /\ ret' = NumberVal(workingHours(arg.text = "present", arg.num,
                                    arg.time, arg.time2))
  /\ UNCHANGED <<tz, arg, back>>
  /\ UNCHANGED client

\* The attendance page asks whether a check-in is late.
IsLate ==
  /\ arg.kind = "late" /\ ret = NoVal
  /\ ret' = Val("boolean", <<>>, <<>>, "",
                IF isLate(arg.time, arg.time2) THEN "true" ELSE "false", 0)
  /\ UNCHANGED <<tz, arg, back>>
  /\ UNCHANGED client

\* The catch of a domain call (getCompanyDetails, updateCompanyDetails,
\* getAllAttendance, ...): throw new Error(parseApiError(err)).
DomainCatch ==
  /\ arg.kind = "error" /\ ret = NoVal
  /\ ret' = Error(parseApiError(arg))
  /\ UNCHANGED <<tz, arg, back>>
  /\ UNCHANGED client

\* The catch of a page: setErrorMessage(parseApiError(err)) with the error
\* the domain call threw.
setErrorMessage ==
  /\ arg.kind = "error" /\ ret # NoVal /\ back = NoVal
  /\ back' = Str(parseApiError(ret))
  /\ UNCHANGED <<tz, arg, ret>>
  /\ UNCHANGED client

PureNext ==
  \/ handleSave
  \/ loadCompanyData
  \/ MapStatus
  \/ WorkingHours
  \/ getAttendance
  \/ IsLate
  \/ DomainCatch
  \/ setErrorMessage

PureSpec == PureInit /\ [][PureNext]_vars

\* ------------------------------------------------------------- properties

\* The send of request i that is in flight is answered with status st in
\* this step.
Got(i, st) == req[i].pc = "sent" /\ req'[i].sts = Append(req[i].sts, st)

Err(src, n) == [kind |-> "err", src |-> src, n |-> n]

Refreshing == {i \in Reqs : req[i].pc = "refreshing"}

\* C1.  No logical request ever has more than one refresh call or more than
\* one re-send.  A first 401 of a call (not of the refresh endpoint) that
\* finds a refresh token in the store makes exactly one refresh call; once
\* that call has succeeded the config has been sent again exactly once; a
\* 401 to the re-sent config settles the call with that 401, with still one
\* refresh call and one re-send.
\* (C1, in every state)
C1_Always ==
  \A i \in Reqs :
    /\ req[i].nRefresh <= 1
    /\ req[i].nSend <= 2
    /\ req[i].rst = OK => req[i].nRefresh = 1 /\ req[i].nSend = 2

\* (C1, the first 401 of a call)
C1_First401 ==
  \A i \in Reqs :
    (/\ req[i].nSend = 1
     /\ req[i].url # "refresh"
     /\ refreshToken # NoTok
     /\ Got(i, Unauthorized))
    => /\ req'[i].pc = "refreshing"
       /\ req'[i].nRefresh = 1
       /\ req'[i].nSend = 1

\* (C1, a 401 to the re-sent config)
C1_Second401 ==
  \A i \in Reqs :
    (req[i].nSend = 2 /\ Got(i, Unauthorized))
    => /\ req'[i].pc = "done"
       /\ req'[i].out = Err("send", 2)
       /\ req'[i].nRefresh = 1
       /\ req'[i].nSend = 2

\* C1: at most one refresh call and one re-send per logical request; exactly
\* one refresh call on a first 401 with a refresh token stored, exactly one
\* re-send once it succeeded, a second 401 surfaced without another refresh.
C1_OneRefreshOneRetry ==
  /\ []C1_Always
  /\ [][C1_First401]_vars
  /\ [][C1_Second401]_vars

C1_Witness ==
  \E i \in Reqs :
    /\ req[i].pc = "done"
    /\ req[i].sts = <<Unauthorized, Unauthorized>>
    /\ req[i].nRefresh = 1
    /\ req[i].nSend = 2
    /\ req[i].out = Err("send", 2)

\* C2.  (Handlers of rev 2 and rev 3, the claim's sources.)  A 401 to a
\* config not yet marked _retry, of a call that is not to the refresh
\* endpoint, handled while the refresh-token slot is empty: no refresh call
\* is made for any request, both slots are empty afterwards, the browser is
\* at the login entry point, and the call is rejected with that 401.
C2_Step ==
  \A i \in Reqs :
    (/\ rev \in {2, 3}
     /\ ~req[i].retry
     /\ req[i].url # "refresh"
     /\ refreshToken = NoTok
     /\ Got(i, Unauthorized))
    => /\ \A j \in Reqs : req'[j].nRefresh = req[j].nRefresh
       /\ Refreshing' = Refreshing
       /\ accessToken' = NoTok
       /\ refreshToken' = NoTok
       /\ location' = "login"
       /\ req'[i].pc = "done"
       /\ req'[i].out = Err("send", req[i].nSend)

\* C2: a 401 handled with the refresh-token slot empty makes no refresh
\* call, empties both slots, goes to login and rejects with that 401.
C2_NoRefreshTokenLogout == [][C2_Step]_vars

C2_Witness ==
  \E i \in Reqs :
    /\ rev \in {2, 3}
    /\ req[i].pc = "done"
    /\ req[i].sts = <<Unauthorized>>
    /\ req[i].retry
    /\ req[i].nRefresh = 0
    /\ req[i].out = Err("send", 1)
    /\ accessToken = NoTok /\ refreshToken = NoTok
    /\ location = "login"

\* C3.  A call whose refresh succeeded is settled only by the response to
\* the re-sent config: resolved exactly when that response is a success,
\* rejected with that response's error otherwise; until that response
\* arrives the caller has observed nothing, and it never observes the
\* first 401.
C3_CallerSeesRetryOutcome ==
  \A i \in Reqs :
    req[i].rst = OK =>
      /\ req[i].pc # "done" => req[i].out = NoOut
      /\ req[i].pc = "done" =>
           /\ Len(req[i].sts) = 2
           /\ req[i].out.src = "send"
           /\ req[i].out.n = 2
           /\ req[i].out.kind = "ok" <=> req[i].sts[2] = OK

C3_Witness ==
  \E i \in Reqs :
    /\ req[i].pc = "done"
    /\ req[i].sts = <<Unauthorized, OK>>
    /\ req[i].rst = OK
    /\ req[i].out = [kind |-> "ok", src |-> "send", n |-> 2]

\* C4.  When the handler's refresh call fails: both slots are empty, the
\* browser is at the login entry point, the config is not sent again, and
\* the call is rejected with the error of the refresh call.
C4_Step ==
  \A i \in Reqs :
    (req[i].pc = "refreshing" /\ req'[i].rst \in Statuses \ {OK})
    => /\ accessToken' = NoTok
       /\ refreshToken' = NoTok
       /\ location' = "login"
       /\ req'[i].nSend = req[i].nSend
       /\ req'[i].pc = "done"
       /\ req'[i].out = Err("refresh", 0)

\* C4: a failed refresh call empties both slots, goes to login, sends
\* nothing again and rejects with the refresh error.
C4_RefreshFailureLogout == [][C4_Step]_vars

\* C5.  In every revision the handler's refresh call reaches the server
\* with the refresh token the handler read as its bearer credential, on an
\* axios instance without interceptors.
C5_RefreshCallBare ==
  \A i \in Reqs :
    req[i].nRefresh > 0 => req[i].rauth = req[i].rt /\ req[i].rvia = "bare"

\* C6.  In every revision a call to the refresh endpoint is never followed
\* by a refresh call of the handler and is never sent again.
C6_NoRefreshForRefresh ==
  \A i \in Reqs :
    req[i].url = "refresh" =>
      /\ req[i].nRefresh = 0
      /\ req[i].nSend <= 1
      /\ ~req[i].retry

\* C7.  Every 401 the handler acts on with a refresh token stored makes a
\* refresh call of its own, whatever refresh calls are in flight, so the
\* requests awaiting a refresh are as many as the refresh calls in flight;
\* each successful refresh response puts its own token into the store, a
\* token no earlier response carried, so the store keeps the token of the
\* response handled last.
\* (C7, every handler makes its own refresh call)
C7_OwnCall ==
  \A i \in Reqs :
    (/\ ~req[i].retry
     /\ req[i].url # "refresh"
     /\ refreshToken # NoTok
     /\ Got(i, Unauthorized))
    => /\ req'[i].pc = "refreshing"
       /\ req'[i].nRefresh = req[i].nRefresh + 1
       /\ Cardinality(Refreshing') = Cardinality(Refreshing) + 1

\* (C7, each successful refresh response overwrites the access token)
C7_LastWins ==
  \A i \in Reqs :
    (req[i].pc = "refreshing" /\ req'[i].rst = OK)
    => /\ accessToken' = req'[i].rtok
       /\ \A j \in Reqs : req[j].rtok # req'[i].rtok

\* C7: N concurrent 401s make N refresh calls; the store keeps the token
\* of the refresh response handled last.
C7_IndependentRefreshCalls ==
  /\ [](\A i \in Refreshing : req[i].nRefresh = 1)
  /\ [][C7_OwnCall]_vars
  /\ [][C7_LastWins]_vars

\* Two requests failed with 401 concurrently (the refresh call of j went out
\* while that of i was in flight), both refresh calls succeeded, and the
\* store holds the token of the response handled last.
C7_Witness ==
  \E i, j \in Reqs :
    /\ i # j
    /\ req[i].peers + req[j].peers >= 1
    /\ req[i].pc = "sent" /\ req[i].nSend = 2 /\ req[i].rst = OK
    /\ req[j].pc = "sent" /\ req[j].nSend = 2 /\ req[j].rst = OK
    /\ req[i].rtok < req[j].rtok
    /\ accessToken = req[j].rtok

\* C8.  Requests failing with 401 while a refresh is underway share that
\* refresh: at most one refresh call is in flight at any time.
C8_SingleFlightRefresh == Cardinality(Refreshing) <= 1

\* C9.  (Handlers of rev 2 and rev 3.)  After the handler cleared the store
\* and sent the browser to login, both slots stay empty until the next
\* successful login.
C9_ClearedUntilLogin ==
  (rev \in {2, 3} /\ forced) => accessToken = NoTok /\ refreshToken = NoTok

\* C10.  The re-sent config carries the access token of its own refresh
\* response in its Authorization header.
C10_RetryCarriesOwnToken ==
  \A i \in Reqs :
    req[i].nSend = 2 => req[i].rtok # NoTok /\ req[i].auth = req[i].rtok

C10_Witness ==
  \E i, j \in Reqs :
    /\ i # j
    /\ req[i].pc = "sent" /\ req[i].nSend = 2
    /\ req[i].auth = req[i].rtok
    /\ req[j].rst = OK /\ req[j].rtok < req[i].rtok
    /\ accessToken = req[i].rtok

\* C11.  A failed response that is not a 401, and a 401 to a config already
\* marked _retry, is rejected to the caller as it is: no refresh call is
\* made, the config is not sent again, the browser stays where it is and
\* both slots keep their values.  A successful response resolves the call
\* with that response; the interceptor leaves the store and the location as
\* they are (for api.login the domain client stores the pair afterwards,
\* see C14).
\* (C11, errors passed through)
C11_ErrorStep ==
  \A i \in Reqs : \A st \in Statuses \ {OK} :
    (Got(i, st) /\ (st # Unauthorized \/ req[i].retry))
    => /\ req'[i].pc = "done"
       /\ req'[i].out = Err("send", req[i].nSend)
       /\ \A j \in Reqs : /\ req'[j].nRefresh = req[j].nRefresh
                           /\ req'[j].nSend = req[j].nSend
       /\ Refreshing' = Refreshing
       /\ location' = location
       /\ forced' = forced
       /\ accessToken' = accessToken
       /\ refreshToken' = refreshToken

\* (C11, successes passed through)
C11_SuccessStep ==
  \A i \in Reqs :
    Got(i, OK)
    => /\ req'[i].pc = "done"
       /\ req'[i].out = [kind |-> "ok", src |-> "send", n |-> req[i].nSend]
       /\ \A j \in Reqs : /\ req'[j].nRefresh = req[j].nRefresh
                           /\ req'[j].nSend = req[j].nSend
       /\ req[i].url # "login" =>
            /\ accessToken' = accessToken
            /\ refreshToken' = refreshToken
            /\ location' = location

\* C11: a non-401 failure and a 401 to an already retried request are
\* rejected unchanged with no refresh call, no redirect and both slots
\* unchanged; a success is passed through with the store unchanged.
C11_PassThrough == [][C11_ErrorStep /\ C11_SuccessStep]_vars

\* One call was rejected with its second 401 and another with a 500, and
\* the session is still in place.
C11_Witness ==
  \E i, j \in Reqs :
    /\ req[i].pc = "done" /\ req[i].sts = <<Unauthorized, Unauthorized>>
    /\ req[i].out = Err("send", 2)
    /\ req[j].pc = "done" /\ req[j].sts = <<ServerError>>
    /\ req[j].out = Err("send", 1)
    /\ accessToken # NoTok /\ refreshToken # NoTok
    /\ location = "app" /\ ~forced

\* C12 (as stated).  Every send through the shared instance carries
\* Authorization: Bearer t exactly when the store holds the access token t
\* at that moment, and no Authorization header when the access-token slot is
\* empty (NoTok stands for both).
C12_SendStep ==
  \A i \in Reqs :
    req'[i].nSend = req[i].nSend + 1 => req'[i].auth = accessToken'

\* C12 (as stated): header present with token t iff the store holds t.
C12_HeaderIffStored == [][C12_SendStep]_vars

\* C12 (amended).  A send made while the store holds an access token t
\* carries Bearer t, whatever header the config had.  A send made while the
\* access-token slot is empty carries the config's own header: none for a
\* domain call or a login, Bearer r for api.refreshToken(r).  A re-send is
\* always made with an access token in the store.
C12_AmendedStep ==
  \A i \in Reqs :
    req'[i].nSend = req[i].nSend + 1 =>
      /\ accessToken' # NoTok => req'[i].auth = accessToken'
      /\ accessToken' = NoTok =>
           /\ req'[i].nSend = 1
           /\ req'[i].auth = req'[i].hdr
           /\ req'[i].url # "refresh" => req'[i].auth = NoTok
           /\ req'[i].url = "refresh" => req'[i].auth # NoTok

\* C12 (amended): Bearer t when the store holds t; the config's own header,
\* if any, when the store holds no access token.
C12_HeaderFromStoreOrConfig == [][C12_AmendedStep]_vars

\* api.refreshToken(r) was sent while the store held no access token (no
\* token had been issued since the start, so the slot held the initial
\* access token or nothing), and it went out with Bearer r.
C12_Witness ==
  \E i \in Reqs :
    /\ req[i].pc = "sent" /\ req[i].url = "refresh" /\ req[i].nSend = 1
    /\ minted = InitialRefreshToken
    /\ req[i].hdr = InitialRefreshToken /\ req[i].auth = InitialRefreshToken
    /\ accessToken = NoTok

\* C13 (as stated).  When a refresh-and-retry sequence ends with a
\* successful response to the re-sent config, the refresh-token slot holds
\* the value it held when the sequence began (the value the handler read).
C13_SameStep ==
  \A i \in Reqs :
    (req[i].rst = OK /\ Got(i, OK)) => refreshToken' = req[i].rt

\* C13 (as stated): the refresh-token slot holds the same value before and
\* after every successful refresh-and-retry sequence.
C13_SameBeforeAfter == [][C13_SameStep]_vars

\* C13 (amended).  The step that handles a successful refresh response
\* writes the access-token slot and leaves the refresh-token slot as it is,
\* and so does the step that settles the re-sent config unless the config
\* is a login.  Whenever the refresh-token slot changes, either a login has
\* just succeeded (the slot is then non-empty) or the slot has been emptied
\* by logout or by a forced logout of the handler.
\* (C13, a step is the logout of the domain client)
C13_IsLogout ==
  /\ req' = req
  /\ accessToken' = NoTok
  /\ refreshToken' = NoTok

\* (C13, a step is a forced logout of the handler for some request)
C13_IsForcedLogout ==
  /\ forced'
  /\ accessToken' = NoTok
  /\ refreshToken' = NoTok
  /\ \E i \in Reqs : /\ req[i].pc \in {"sent", "refreshing"}
                     /\ req[i].retry \/ Got(i, Unauthorized)
                     /\ req'[i].pc = "done"
                     /\ req'[i].out.kind = "err"

\* (C13, a step is a successful response to api.login)
C13_IsLogin == \E i \in Reqs : req[i].url = "login" /\ Got(i, OK)

C13_Step ==
  /\ \A i \in Reqs :
       (req[i].pc = "refreshing" /\ req'[i].rst = OK)
       => /\ refreshToken' = refreshToken
          /\ accessToken' = req'[i].rtok
  /\ \A i \in Reqs :
       (req[i].rst = OK /\ req[i].pc = "sent" /\ req'[i].pc = "done"
        /\ req[i].url # "login")
       => refreshToken' = refreshToken
  /\ refreshToken' # refreshToken =>
       IF refreshToken' # NoTok THEN C13_IsLogin
       ELSE C13_IsLogout \/ C13_IsForcedLogout

\* C13 (amended): no step of a refresh-and-retry sequence writes the
\* refresh-token slot, except the success of a re-sent login; the slot is
\* written only by a successful login and emptied only by logout or a
\* forced logout.
C13_RefreshTokenNotRotated == [][C13_Step]_vars

\* A refresh-and-retry sequence ran to a successful end; the refresh-token
\* slot holds what the handler read when it began, and the access-token
\* slot the token of the refresh response.
C13_Witness ==
  \E i \in Reqs :
    /\ req[i].pc = "done"
    /\ req[i].sts = <<Unauthorized, OK>>
    /\ req[i].rst = OK
    /\ req[i].rt # NoTok
    /\ refreshToken = req[i].rt
    /\ accessToken = req[i].rtok

\* C14.  The step in which a call of api.login is resolved is the step in
\* which both slots take the tokens of the login response, whatever the
\* store held before; no state exists in which the caller has the result
\* and the store does not yet hold the pair, and a login that is not yet
\* resolved has written nothing.
C14_Step ==
  \A i \in Reqs :
    (req[i].url = "login" /\ Got(i, OK))
    => /\ req'[i].pc = "done"
       /\ req'[i].out.kind = "ok"
       /\ req'[i].pair[1] # NoTok /\ req'[i].pair[2] # NoTok
       /\ req'[i].pair[1] # req'[i].pair[2]
       /\ req'[i].over = <<accessToken, refreshToken>>
       /\ accessToken' = req'[i].pair[1]
       /\ refreshToken' = req'[i].pair[2]

\* (C14, the caller has a result only together with the stored pair)
C14_Always ==
  \A i \in Reqs :
    /\ (req[i].out.kind = "ok" /\ req[i].url = "login") <=> req[i].pair # NoPair
    /\ req[i].pc # "done" => req[i].pair = NoPair

\* C14: after api.login succeeds the store holds exactly the pair of the
\* login response, written before the caller sees the result and replacing
\* any pair stored before.
C14_LoginStoresPair == []C14_Always /\ [][C14_Step]_vars

\* A login succeeded while the store held a full pair of an earlier
\* session, and the store now holds the pair of the response.
C14_Witness ==
  \E i \in Reqs :
    /\ req[i].url = "login" /\ req[i].pc = "done" /\ req[i].out.kind = "ok"
    /\ req[i].over[1] # NoTok /\ req[i].over[2] # NoTok
    /\ accessToken = req[i].pair[1] /\ refreshToken = req[i].pair[2]
    /\ accessToken # req[i].over[1] /\ refreshToken # req[i].over[2]

\* C15.  A request in flight has exactly one network call outstanding (a
\* send of its config or the refresh call of its handler), and the response
\* to it can always be handled, in particular a 401.  Handling a response
\* for a request raises the number of responses it has had by one and is
\* the only way that number changes; a request has at most two sends, one
\* refresh call and three responses, and with three responses it is
\* settled.  So a call is settled by the third response at the latest,
\* whatever statuses the server answers with.
\* (C15, the responses handled for a request so far)
C15_Responses(i) == Len(req[i].sts) + (IF req[i].rst # 0 THEN 1 ELSE 0)

\* (C15, the bound of the sequence)
C15_Bounded ==
  \A i \in Reqs :
    /\ req[i].nSend <= 2
    /\ req[i].nRefresh <= 1
    /\ req[i].nSend = 2 => req[i].nRefresh = 1
    /\ C15_Responses(i) <= 3
    /\ C15_Responses(i) = 3 => req[i].pc = "done"
    /\ req[i].pc = "sent" => C15_Responses(i) = 2 * (req[i].nSend - 1)
    /\ req[i].pc = "refreshing" => C15_Responses(i) = 1

\* (C15, a 401 to the outstanding call of a request in flight is handled)
C15_Answerable ==
  \A i \in Reqs :
    /\ req[i].pc = "sent" =>
         ENABLED (\/ ResponseRejected(i, Unauthorized)
                  \/ ResponseNoRefreshToken(i)
                  \/ ResponseStartRefresh(i))
    /\ req[i].pc = "refreshing" => ENABLED RefreshFailed(i, Unauthorized)

\* (C15, a request in flight moves only by a response handled for it, each
\* of which counts; a request not in flight has no response handled)
C15_Step ==
  \A i \in Reqs :
    IF req[i].pc \in {"sent", "refreshing"}
      THEN req'[i] # req[i] => C15_Responses(i)' = C15_Responses(i) + 1
      ELSE C15_Responses(i)' = C15_Responses(i)

\* C15: every call in flight is settled after at most three responses
\* (original send, one refresh call, one re-send), each of which can be
\* handled, also when every answer is a 401.
C15_EveryCallSettles ==
  /\ [](C15_Bounded /\ C15_Answerable)
  /\ [][C15_Step]_vars

\* The server answered 401 to everything: a call was rejected after its own
\* 401 and the 401 of its refresh call, and a call of the refresh endpoint
\* was rejected after its 401.
C15_Witness ==
  \E i, j \in Reqs :
    /\ req[i].pc = "done" /\ req[i].url = "data"
    /\ req[i].sts = <<Unauthorized>> /\ req[i].rst = Unauthorized
    /\ req[i].out = Err("refresh", 0)
    /\ req[j].pc = "done" /\ req[j].url = "refresh"
    /\ req[j].sts # <<>>
    /\ \A k \in 1..Len(req[j].sts) : req[j].sts[k] = Unauthorized
    /\ req[j].rst \in {0, Unauthorized}

\* C16.  (PureSpec.)  For every local time (hour 1..12, minute 0..59, AM or
\* PM) and every offset, convertUTCToLocalTime applied to the result of
\* convertLocalTimeToUTC gives the same "hh:mm" and the same period.
C16_LocalRoundTrip ==
  (arg.kind = "local" /\ back # NoVal) =>
    /\ ret.kind = "utc"
    /\ back.kind = "local"
    /\ back.time = arg.time
    /\ back.period = arg.period

\* 12:30 AM at UTC+05:30 is 19:00 UTC of the day before, and comes back as
\* 12:30 AM.
C16_Witness ==
  /\ tz = 330
  /\ arg.kind = "local"
  /\ arg.time = <<padStart(12), padStart(30)>> /\ arg.period = "AM"
  /\ ret.time = <<padStart(19), padStart(0), padStart(0)>>
  /\ back.time = arg.time /\ back.period = "AM"

\* C17.  (PureSpec.)  For every stored UTC time "HH:MM:00" and every offset,
\* convertLocalTimeToUTC applied to the result of convertUTCToLocalTime
\* gives the same "HH:MM:00": a load followed by a save leaves the stored
\* time as it was.
C17_StoredRoundTrip ==
  (arg.kind = "utc" /\ back # NoVal) =>
    /\ ret.kind = "local"
    /\ back.kind = "utc"
    /\ back.time = arg.time

\* 23:45 UTC at UTC+05:45 is shown as 05:30 AM of the next day and saved as
\* 23:45:00 again.
C17_Witness ==
  /\ tz = 345
  /\ arg.kind = "utc"
  /\ arg.time = <<padStart(23), padStart(45), padStart(0)>>
  /\ ret.time = <<padStart(5), padStart(30)>> /\ ret.period = "AM"
  /\ back.time = arg.time

\* (C18, the 24-hour value the claim gives for a 12-hour time)
C18_Hour24(h, p) ==
  IF h = 12 THEN (IF p = "AM" THEN 0 ELSE 12)
  ELSE IF p = "PM" THEN h + 12 ELSE h

\* (C18, local to UTC)
C18_ToUTC ==
  (arg.kind = "local" /\ ret # NoVal) =>
    LET h == parseInt(arg.time[1])
        m == parseInt(arg.time[2])
        utc == (C18_Hour24(h, arg.period) * 60 + m - tz) % DayMinutes
    IN  ret.time = <<padStart(utc \div 60), padStart(utc % 60), padStart(0)>>

\* (C18, UTC to local)
C18_ToLocal ==
  (arg.kind = "utc" /\ ret # NoVal) =>
    LET loc == (parseInt(arg.time[1]) * 60 + parseInt(arg.time[2]) + tz) % DayMinutes
        localHour == loc \div 60
        shown == parseInt(ret.time[1])
    IN  /\ shown \in 1..12
        /\ ret.period \in Periods
        /\ ret.period = "PM" <=> localHour >= 12
        /\ localHour = 0 => shown = 12 /\ ret.period = "AM"
        /\ localHour = 12 => shown = 12 /\ ret.period = "PM"
        /\ shown % 12 = localHour % 12
        /\ parseInt(ret.time[2]) = loc % 60

\* C18.  (PureSpec.)  convertLocalTimeToUTC takes 12 AM as hour 0, 12 PM as
\* hour 12 and h PM as h + 12 before it converts; convertUTCToLocalTime
\* shows local hour 0 as 12 AM and local hour 12 as 12 PM, its hour is
\* always in 1..12 and its period is PM exactly from local hour 12 on.
C18_TwelveHourBoundary == C18_ToUTC /\ C18_ToLocal

\* 06:30 UTC at UTC+05:30 is local noon and is shown as 12:00 PM.
C18_Witness ==
  /\ tz = 330
  /\ arg.kind = "utc"
  /\ arg.time = <<padStart(6), padStart(30), padStart(0)>>
  /\ ret.time = <<padStart(12), padStart(0)>> /\ ret.period = "PM"

\* (C19, the seven statuses of the claim)
C19_Known ==
  {"NOT_MARKED", "CHECK_IN_APPROVAL_REQUESTED", "CHECK_IN_REJECTED",
   "CHECKED_IN", "CHECK_OUT_APPROVAL_REQUESTED", "CHECKED_OUT",
   "CHECK_OUT_REJECTED"}

\* C19.  (PureSpec.)  mapAttendanceStatus always returns a status string;
\* the seven known statuses have values of their own, different from each
\* other, only NOT_MARKED among them giving not-marked; every other string
\* gives not-marked.
C19_StatusMapTotal ==
  (arg.kind = "status" /\ ret # NoVal) =>
    /\ ret.kind = "string"
    /\ arg.text \notin C19_Known => ret.text = "not-marked"
    /\ arg.text \in C19_Known \ {"NOT_MARKED"} => ret.text # "not-marked"
    /\ \A k \in C19_Known \ {arg.text} : mapAttendanceStatus(k) # ret

\* C20.  (PureSpec.)  calculateWorkingHours never returns a negative number,
\* also when the check-out time of day is earlier than the check-in time.
C20_NeverNegative ==
  (arg.kind = "clock" /\ ret # NoVal) => ret.num >= 0

\* (C21: a well-formed clock time)
C21_WellFormed(s) == s \in ClockTimes

\* (C21: minutes since midnight of a well-formed clock time)
C21_Minutes(s) == (10 * s[1][1] + s[1][2]) * 60 + 10 * s[2][1] + s[2][2]

\* C21.  (PureSpec.)  calculateWorkingHours returns 0 when check-in or
\* check-out is null or empty, whatever the other argument is; for two
\* well-formed times with check-out not before check-in it returns
\* (checkOutMinutes - checkInMinutes) / 60, given in sixtieths.
C21_WorkingHoursValue ==
  (arg.kind = "clock" /\ ret # NoVal) =>
    /\ (Missing(arg.time) \/ Missing(arg.time2)) =>
         ret.kind = "number" /\ ret.num = 0
    /\ (/\ C21_WellFormed(arg.time) /\ C21_WellFormed(arg.time2)
        /\ C21_Minutes(arg.time2) >= C21_Minutes(arg.time)) =>
         /\ ret.kind = "number"
         /\ ret.num = C21_Minutes(arg.time2) - C21_Minutes(arg.time)
         /\ arg.time2 = arg.time => ret.num = 0

\* 09:00:00 to 17:30:00 gives 510 minutes, 8.5 hours.
C21_Witness ==
  /\ arg.kind = "clock"
  /\ arg.time = <<padStart(9), padStart(0), padStart(0)>>
  /\ arg.time2 = <<padStart(17), padStart(30), padStart(0)>>
  /\ ret.kind = "number" /\ ret.num = 510

\* C22.  (PureSpec.)  When check-in and check-out are both present and one
\* of them is not of the form HH:MM (a part that is not a number, or no
\* colon), calculateWorkingHours returns the number 0, not NaN.
C22_MalformedGivesZero ==
  (/\ arg.kind = "clock" /\ ret # NoVal
   /\ ~Missing(arg.time) /\ ~Missing(arg.time2)
   /\ (arg.time \in Malformed \/ arg.time2 \in Malformed)) =>
    ret.kind = "number" /\ ret.num = 0

\* C23.  (PureSpec.)  The workingHours of a record built by getAttendance is
\* the backend's otHours when that is present and not zero, whatever checkIn
\* and checkOut are; it is the value computed from checkIn and checkOut
\* when otHours is absent or zero.
C23_Computed(a, b) ==
  IF Missing(a) \/ Missing(b) THEN Val("number", <<>>, <<>>, "", "", 0)
  ELSE IF C21_WellFormed(a) /\ C21_WellFormed(b)
    THEN Val("number", <<>>, <<>>, "", "", C21_Minutes(b) - C21_Minutes(a))
  ELSE Val("NaN", <<>>, <<>>, "", "", 0)

C23_OtHoursPrecedence ==
  (arg.kind = "record" /\ ret # NoVal) =>
    IF arg.text = "present" /\ arg.num # 0
      THEN ret.kind = "number" /\ ret.num = arg.num * 60
      ELSE ret = C23_Computed(arg.time, arg.time2)

C23_Witness ==
  /\ arg.kind = "record" /\ arg.text = "present" /\ arg.num = 8
  /\ arg.time = <<padStart(9), padStart(0), padStart(0)>>
  /\ arg.time2 = <<padStart(17), padStart(30), padStart(0)>>
  /\ ret.kind = "number" /\ ret.num = 480

\* C24.  (PureSpec.)  isLate is true exactly when the check-in time and
\* lastAllowedCheckInTime are both present and the check-in's minutes since
\* midnight exceed the threshold's; at the threshold minute, or with either
\* one missing, it is false.
C24_LateIffAfterThreshold ==
  (arg.kind = "late" /\ ret # NoVal) =>
    /\ ret.kind = "boolean"
    /\ ret.text = "true" <=>
         /\ C21_WellFormed(arg.time) /\ C21_WellFormed(arg.time2)
         /\ C21_Minutes(arg.time) > C21_Minutes(arg.time2)
    /\ (Missing(arg.time) \/ Missing(arg.time2)) => ret.text = "false"
    /\ arg.time = arg.time2 => ret.text = "false"

C24_Witness ==
  /\ arg.kind = "late"
  /\ arg.time = <<padStart(9), padStart(1), padStart(0)>>
  /\ arg.time2 = <<padStart(9), padStart(0), padStart(0)>>
  /\ ret.kind = "boolean" /\ ret.text = "true"

\* C25.  (PureSpec.)  For an error of axios, parseApiError returns, in every
\* revision: the details array joined with ", "; else the messages of the
\* violations array joined with ", "; else the message; else the title;
\* else a generic fallback string.
C25_Preferred(e) ==
  IF e.details.is = "array" THEN join(e.details.items)
  ELSE IF e.violations.is = "array" THEN join(e.violations.items)
  ELSE IF e.message.is = "string" /\ e.message.v # <<>> THEN e.message.v
  ELSE IF e.title.is = "string" /\ e.title.v # <<>> THEN e.title.v
  ELSE <<"Unexpected API error">>

C25_PreferenceOrder ==
  (arg.kind = "error" /\ arg.isAxiosError /\ ret # NoVal) =>
    ret.message.v = C25_Preferred(arg)

\* C26.  (PureSpec.)  When a domain call fails with an error of axios whose
\* body has details, violations, a message or a title, the string the page
\* shows is the one extracted from that body, not a generic fallback.
C26_Structured(e) ==
  \/ e.details.is = "array" /\ e.details.items # <<>>
  \/ e.violations.is = "array" /\ e.violations.items # <<>>
  \/ e.message.is = "string" /\ e.message.v # <<>>
  \/ e.title.is = "string" /\ e.title.v # <<>>

C26_MessageSurvivesRethrow ==
  (/\ arg.kind = "error" /\ arg.isAxiosError /\ C26_Structured(arg)
   /\ ret # NoVal /\ back # NoVal) =>
    /\ back.v = ret.message.v
    /\ back.v \notin {<<"Unknown error">>, <<"Unexpected API error">>}

\* C29.  (PureSpec.)  parseApiError never returns the empty string: with an
\* empty details or violations array it returns the message, the title or
\* the fallback.
C29_NeverEmpty ==
  /\ (arg.kind = "error" /\ ret # NoVal) => ret.message.v # <<>>
  /\ (arg.kind = "error" /\ back # NoVal) => back.v # <<>>

\* C27.  (Spec, rev 3.)  After logout has cleared the store, both slots stay
\* empty until the next successful login: a refresh call started before the
\* logout and answered after it puts no access token back.  (The location
\* is "login" with forced false exactly from a logout to the next
\* successful login.)
C27_EmptyAfterLogout ==
  (rev = 3 /\ location = "login" /\ ~forced) =>
    accessToken = NoTok /\ refreshToken = NoTok

\* C28.  (Spec, rev 2 and 3.)  A login call that is answered with a failure,
\* a 401 included, is settled in that step with the login endpoint's own
\* error: the store and the location stay as they are, no refresh call is
\* made and the call is not sent again.
C28_Step ==
  \A i \in Reqs, st \in Statuses \ {OK} :
    (rev \in {2, 3} /\ req[i].url = "login" /\ Got(i, st)) =>
      /\ accessToken' = accessToken
      /\ refreshToken' = refreshToken
      /\ location' = location
      /\ forced' = forced
      /\ req'[i].nRefresh = 0
      /\ req'[i].nSend = 1
      /\ req'[i].pc = "done"
      /\ req'[i].out = Err("send", 1)

C28_FailedLoginLeavesStore == [][C28_Step]_vars

====
